---- MODULE Spec2Model ----
(***************************************************************************)
(* Model of the weather API proxy (package main of the api-proxy service)  *)
(* and of the poll loop of the heartbeat-service.  net/http runs           *)
(* weatherHandler in one goroutine per request, and all of them share the  *)
(* package-level maps circuitState, failureCount and lastFailureTime       *)
(* without any lock.  Each action of the proxy is one access to that       *)
(* shared memory (or one network event) of one handler goroutine, so that  *)
(* the interleavings of concurrent requests are the behaviours of the      *)
(* model.  Spec runs concurrent requests, SpecSeq and SpecLive one request *)
(* at a time, SpecHB the health monitor.                                   *)
(***************************************************************************)
EXTENDS Integers, Sequences, FiniteSets, TLC

\* ------------------------------------------------------------------ bounds
NumReqs == 2        \* handler goroutines that may run at the same time
MaxTime == 30       \* the clock stops advancing here (seconds)
TickStep == 15      \* seconds the clock advances in one Tick
MaxFetches == 2     \* requests accepted in one behaviour of Spec
MaxSeqFetches == 5  \* requests accepted in one behaviour of SpecSeq
MaxLog == 3         \* poll iterations of the health monitor kept on record
MaxCount == 4       \* failureCount stops growing here in SpecLive

\* ------------------------------------------------------- program constants
Threshold == 3      \* failureCount[api] >= 3
Cooldown == 30      \* 30*time.Second
ZeroTime == -1      \* time.Time{}: the zero time, long before any now

apis == <<"openweathermap", "wttr">>
Apis == {apis[k] : k \in 1..Len(apis)}
Reqs == 1..NumReqs
\* the position of provider a in the priority order, and the providers the
\* loop reaches after it
Rank(a) == CHOOSE k \in 1..Len(apis) : apis[k] = a
Lower(a) == {apis[k] : k \in (Rank(a) + 1)..Len(apis)}
Cities == {"", "London"}

StubBody == "{weather:unavailable,note:all providers failed, returning stubbed response}"
MissingCity == "Missing ?city= parameter"
NilMap == [src |-> "nil"]
NoResp == "none"

\* what redisClient.Publish(...).Err() may return (line 137)
BusResults == {"nil", "error"}

\* what a provider's endpoint may answer: a transport error, a non-200
\* status, or status 200 with a body that is a JSON object or is not
Replies(a) == {"err", "non200", "json:" \o a, "garbage:" \o a}
IsFailure(reply) == reply \in {"err", "non200"}

\* json.NewDecoder(resp.Body).Decode(&result), its error dropped: a body that
\* is no JSON object leaves result nil
Decode(body) ==
  CASE body = "json:openweathermap" -> [src |-> "openweathermap"]
    [] body = "json:wttr" -> [src |-> "wttr"]
    [] OTHER -> NilMap

\* json.NewEncoder(w).Encode(data)
Encode(data) ==
  CASE data = [src |-> "openweathermap"] -> "json:openweathermap"
    [] data = [src |-> "wttr"] -> "json:wttr"
    [] OTHER -> "null"

VARIABLES
  inactiveAPIs,     \* [Apis -> BOOLEAN]
  circuitState,     \* [Apis -> {"closed","open","half-open"}]
  failureCount,     \* [Apis -> Nat]
  lastFailureTime,  \* [Apis -> time]
  now,              \* the wall clock, in seconds
  city,             \* the city parameter of the request this handler serves
  pc,               \* where each handler goroutine is
  idx,              \* the position of the range loop over apis
  tmp,              \* the value loaded by failureCount[api]++ before its store
  resp,             \* the reply of client.Get
  response,         \* what the handler wrote to the ResponseWriter
  published,        \* the messages this request handed to publishStatus
  pubErr,           \* err of the publishStatus call this handler just left
  outcome,          \* history: what this fetch did with each provider
  readBy,           \* history: providers whose circuit maps this fetch read
  wroteBy,          \* history: providers whose circuit maps this fetch wrote
  calls,            \* history: the providers this fetch called, in order
  recorded,         \* history: failures recorded per provider since a reset
  prior,            \* history: the failed calls that preceded the behaviour
  fetches,          \* history: requests accepted so far
  hbPc,             \* heartbeat-service: where its main goroutine is
  hbResult,         \* heartbeat-service: what client.Get returned to checkHealth
  hbLog,            \* history: result and alert of the last poll iterations
  recovered         \* environment: the top-priority provider answers 200 from now on

shared == <<circuitState, failureCount, lastFailureTime>>
locals == <<pc, idx, tmp, resp, response, published, pubErr>>
hist == <<outcome, readBy, wroteBy, calls, recorded, prior, fetches>>
monitor == <<hbPc, hbResult, hbLog>>
vars == <<inactiveAPIs, shared, now, city, locals, hist, monitor, recovered>>

NoResponse == [status |-> 0, body |-> "none"]
NoOutcome == [a \in Apis |-> "none"]

\* The maps as lines 68-70 initialise them, and as earlier requests, served
\* one after the other at time 0, leave them: a provider whose last k calls
\* failed (k up to the threshold) has count k and is open once k reaches the
\* threshold (lines 106-110); it has a last-failure time if it ever failed,
\* as an enabled provider has when a provider after it was called and
\* failed.  inactiveAPIs is set only by its initialiser (line 18); the model
\* ranges over the values it may be given.
HasFailed(a) ==
  \/ prior[a] > 0
  \/ ~inactiveAPIs[a] /\ \E b \in Lower(a) : prior[b] > 0

Init ==
  /\ inactiveAPIs \in [Apis -> BOOLEAN]
  /\ prior \in [Apis -> 0..Threshold]
  /\ \A a \in Apis : inactiveAPIs[a] => prior[a] = 0
  /\ circuitState = [a \in Apis |-> IF prior[a] >= Threshold THEN "open" ELSE "closed"]
  /\ failureCount = prior
  /\ lastFailureTime = [a \in Apis |-> IF HasFailed(a) THEN 0 ELSE ZeroTime]
  /\ now = 0
  /\ city = [r \in Reqs |-> "none"]
  /\ pc = [r \in Reqs |-> "idle"]
  /\ idx = [r \in Reqs |-> 1]
  /\ tmp = [r \in Reqs |-> 0]
  /\ resp = [r \in Reqs |-> NoResp]
  /\ response = [r \in Reqs |-> NoResponse]
  /\ published = [r \in Reqs |-> <<>>]
  /\ pubErr = [r \in Reqs |-> "none"]
  /\ outcome = [r \in Reqs |-> NoOutcome]
  /\ readBy = [r \in Reqs |-> {}]
  /\ wroteBy = [r \in Reqs |-> {}]
  /\ calls = [r \in Reqs |-> <<>>]
  /\ recorded = prior
  /\ fetches = 0
  /\ hbPc = "poll"
  /\ hbResult = "none"
  /\ hbLog = <<>>
  /\ recovered = FALSE

\* ------------------------------------------------------------- helpers
\* api with the list walked from its end
apiReversed(r) == apis[Len(apis) + 1 - idx[r]]

\* for _, api := range apis (line 77)
api(r) == apis[idx[r]]

\* Inactive with the test of line 78 left out
InactiveIgnored(a) == FALSE

\* if inactiveAPIs[api] (line 78)
Inactive(a) == inactiveAPIs[a]

\* CooldownPending with the comparison of line 86 turned round
CooldownPendingFlipped(a) ==
  /\ lastFailureTime[a] # ZeroTime
  /\ now - lastFailureTime[a] >= Cooldown

\* time.Since(lastFailureTime[api]) < 30*time.Second (line 86); the zero
\* time lies centuries back, so it is never within the cooldown
CooldownPending(a) ==
  /\ lastFailureTime[a] # ZeroTime
  /\ now - lastFailureTime[a] < Cooldown

\* MissingKey with the test of line 46 left out
MissingKeyAccepted(c) == FALSE

\* city == "" (line 46)
MissingKey(c) == c = ""

\* ThresholdReached with > for >=
ThresholdReachedLate(n) == n > Threshold

\* failureCount[api] >= 3 (line 109)
ThresholdReached(n) == n >= Threshold

\* err != nil || resp.StatusCode != 200 (line 104)
CallFailed(reply) == IsFailure(reply)

Msg(kind, a, n) == <<kind, a, n>>
\* publishStatus, lines 135-137: the message goes to the bus client, which
\* returns err
Publish(r, m, err) ==
  /\ published' = [published EXCEPT ![r] = Append(@, m)]
  /\ pubErr' = [pubErr EXCEPT ![r] = err]

\* AfterPublish with the error handed up: the fetch is given up
AfterPublishPropagated(err, next) == IF err = "nil" THEN next ELSE "stub"

\* publishStatus, lines 138-141: a non-nil err is logged and nothing else;
\* the caller goes on at next
AfterPublish(err, next) == next

Goto(r, l) == pc' = [pc EXCEPT ![r] = l]
\* continue: on to the next element of apis
Continue(r) == /\ idx' = [idx EXCEPT ![r] = @ + 1]
               /\ Goto(r, "loop")
\* the handler returns: its locals are gone, and so is what was observed of it
Return(r) ==
  /\ Goto(r, "done")
  /\ idx' = [idx EXCEPT ![r] = 1]
  /\ tmp' = [tmp EXCEPT ![r] = 0]
  /\ resp' = [resp EXCEPT ![r] = NoResp]
  /\ published' = [published EXCEPT ![r] = <<>>]
  /\ pubErr' = [pubErr EXCEPT ![r] = "none"]
  /\ outcome' = [outcome EXCEPT ![r] = NoOutcome]
  /\ readBy' = [readBy EXCEPT ![r] = {}]
  /\ wroteBy' = [wroteBy EXCEPT ![r] = {}]
  /\ calls' = [calls EXCEPT ![r] = <<>>]
Note(r, a, what) == outcome' = [outcome EXCEPT ![r][a] = what]
Reads(r, a) == readBy' = [readBy EXCEPT ![r] = @ \cup {a}]
Writes(r, a) == wroteBy' = [wroteBy EXCEPT ![r] = @ \cup {a}]

\* ------------------------------------------------------------- actions
\* weatherHandler, lines 45-51: a request arrives; an empty city is
\* answered 400 at once, any other enters getWeatherData
Accept(r, c) ==
  /\ pc[r] \in {"idle", "done"}
  /\ city' = [city EXCEPT ![r] = c]
  /\ IF MissingKey(c)
       THEN /\ response' = [response EXCEPT ![r] = [status |-> 400, body |-> MissingCity]]
            /\ Goto(r, "done")
       ELSE /\ response' = [response EXCEPT ![r] = NoResponse]
            /\ Goto(r, "loop")
  /\ UNCHANGED <<monitor, recovered, inactiveAPIs, shared, now, idx, tmp, resp, published,
                 pubErr, outcome, readBy, wroteBy, calls, recorded, prior>>

\* a request arrives and is counted
Receive(r, c) ==
  /\ Accept(r, c)
  /\ fetches' = fetches + 1

\* lines 77-80 and 132: the head of the range loop (the err of a
\* publishStatus call made in the iteration before is gone)
LoopHead(r) ==
  /\ pc[r] = "loop"
  /\ IF idx[r] > Len(apis)
       THEN /\ Goto(r, "stub")
            /\ UNCHANGED <<idx, outcome>>
       ELSE IF Inactive(api(r))
         THEN /\ Continue(r)
              /\ Note(r, api(r), "disabled")
         ELSE /\ Goto(r, "readState")
              /\ UNCHANGED <<idx, outcome>>
  /\ pubErr' = [pubErr EXCEPT ![r] = "none"]
  /\ UNCHANGED <<monitor, recovered, inactiveAPIs, shared, now, city, tmp, resp, response, published,
                 readBy, wroteBy, calls, recorded, prior, fetches>>

\* lines 83-84: state := circuitState[api]; if state == "open" (the local
\* state is not used after this test, so only the branch taken is kept)
ReadState(r) ==
  /\ pc[r] = "readState"
  /\ Reads(r, api(r))
  /\ Goto(r, IF circuitState[api(r)] = "open" THEN "checkCooldown" ELSE "call")
  /\ UNCHANGED <<monitor, recovered, inactiveAPIs, shared, now, city, idx, tmp, resp, response, published, pubErr,
                 outcome, wroteBy, calls, recorded, prior, fetches>>

\* CheckCooldown with a skip that starts the cooldown again
CheckCooldownExtending(r) ==
  /\ pc[r] = "checkCooldown"
  /\ Reads(r, api(r))
  /\ IF CooldownPending(api(r))
       THEN /\ Continue(r)
            /\ Note(r, api(r), "skipped")
            /\ lastFailureTime' = [lastFailureTime EXCEPT ![api(r)] = now]
       ELSE /\ Goto(r, "setHalfOpen")
            /\ UNCHANGED <<idx, outcome, lastFailureTime>>
  /\ UNCHANGED <<monitor, recovered, inactiveAPIs, circuitState, failureCount, now, city,
                 tmp, resp, response, published, pubErr, wroteBy, calls, recorded,
                 prior, fetches>>

\* lines 86-89: within the cooldown the provider is skipped
CheckCooldown(r) ==
  /\ pc[r] = "checkCooldown"
  /\ Reads(r, api(r))
  /\ IF CooldownPending(api(r))
       THEN /\ Continue(r)
            /\ Note(r, api(r), "skipped")
       ELSE /\ Goto(r, "setHalfOpen")
            /\ UNCHANGED <<idx, outcome>>
  /\ UNCHANGED <<monitor, recovered, inactiveAPIs, shared, now, city, tmp, resp, response, published, pubErr,
                 wroteBy, calls, recorded, prior, fetches>>

\* line 91: circuitState[api] = "half-open"
SetHalfOpen(r) ==
  /\ pc[r] = "setHalfOpen"
  /\ circuitState' = [circuitState EXCEPT ![api(r)] = "half-open"]
  /\ Writes(r, api(r))
  /\ Goto(r, "call")
  /\ UNCHANGED <<monitor, recovered, inactiveAPIs, failureCount, lastFailureTime, now, city, idx, tmp,
                 resp, response, published, pubErr, outcome, readBy, calls, recorded, prior, fetches>>

\* lines 94-102: the request to the provider goes out
IssueCall(r) ==
  /\ pc[r] = "call"
  /\ calls' = [calls EXCEPT ![r] = Append(@, api(r))]
  /\ Goto(r, "inflight")
  /\ UNCHANGED <<monitor, recovered, inactiveAPIs, shared, now, city, idx, tmp, resp, response,
                 published, pubErr, outcome, readBy, wroteBy, recorded, fetches, prior>>

\* lines 102-104: client.Get returns (an answer, an error or the timeout);
\* of a failed call only the fact is kept, the code uses nothing else of it
Respond(r, reply) ==
  /\ pc[r] = "inflight"
  /\ resp' = [resp EXCEPT ![r] = IF CallFailed(reply) THEN "failed" ELSE reply]
  /\ IF CallFailed(reply)
       THEN Goto(r, "readCount") /\ Note(r, api(r), "failed")
       ELSE Goto(r, "resetCount") /\ Note(r, api(r), "ok")
  /\ UNCHANGED <<monitor, recovered, inactiveAPIs, shared, now, city, idx, tmp, response, published, pubErr,
                 readBy, wroteBy, calls, recorded, prior, fetches>>

\* line 106, failureCount[api]++: the load
ReadCount(r) ==
  /\ pc[r] = "readCount"
  /\ tmp' = [tmp EXCEPT ![r] = failureCount[api(r)]]
  /\ Reads(r, api(r))
  /\ Goto(r, "writeCount")
  /\ UNCHANGED <<monitor, recovered, inactiveAPIs, shared, now, city, idx, resp, response, published, pubErr,
                 outcome, wroteBy, calls, recorded, prior, fetches>>

\* line 106, failureCount[api]++: the store
WriteCount(r) ==
  /\ pc[r] = "writeCount"
  /\ failureCount' = [failureCount EXCEPT ![api(r)] = tmp[r] + 1]
  /\ recorded' = [recorded EXCEPT ![api(r)] = @ + 1]
  /\ tmp' = [tmp EXCEPT ![r] = 0]
  /\ Writes(r, api(r))
  /\ Goto(r, "writeLast")
  /\ UNCHANGED <<monitor, recovered, inactiveAPIs, circuitState, lastFailureTime, now, city, idx, resp,
                 response, published, pubErr, outcome, readBy, calls, prior, fetches>>

\* line 107: lastFailureTime[api] = time.Now()
WriteLast(r) ==
  /\ pc[r] = "writeLast"
  /\ lastFailureTime' = [lastFailureTime EXCEPT ![api(r)] = now]
  /\ Writes(r, api(r))
  /\ Goto(r, "checkThreshold")
  /\ UNCHANGED <<monitor, recovered, inactiveAPIs, circuitState, failureCount, now, city, idx, tmp, resp,
                 response, published, pubErr, outcome, readBy, calls, recorded, prior, fetches>>

\* line 109: if failureCount[api] >= 3
CheckThreshold(r) ==
  /\ pc[r] = "checkThreshold"
  /\ Reads(r, api(r))
  /\ Goto(r, IF ThresholdReached(failureCount[api(r)]) THEN "setOpen" ELSE "pubFailure")
  /\ UNCHANGED <<monitor, recovered, inactiveAPIs, shared, now, city, idx, tmp, resp, response, published, pubErr,
                 outcome, wroteBy, calls, recorded, prior, fetches>>

\* line 110: circuitState[api] = "open"
SetOpen(r) ==
  /\ pc[r] = "setOpen"
  /\ circuitState' = [circuitState EXCEPT ![api(r)] = "open"]
  /\ Writes(r, api(r))
  /\ Goto(r, "pubOpened")
  /\ UNCHANGED <<monitor, recovered, inactiveAPIs, failureCount, lastFailureTime, now, city, idx, tmp,
                 resp, response, published, pubErr, outcome, readBy, calls, recorded, prior, fetches>>

\* lines 111 and 116: the circuit-opened message, then continue
PubOpened(r) ==
  /\ pc[r] = "pubOpened"
  /\ \E err \in BusResults :
       /\ Publish(r, Msg("opened", api(r), Threshold), err)
       /\ Goto(r, AfterPublish(err, "loop"))
  /\ idx' = [idx EXCEPT ![r] = @ + 1]
  /\ UNCHANGED <<monitor, recovered, inactiveAPIs, shared, now, city, tmp, resp, response,
                 outcome, readBy, wroteBy, calls, recorded, prior, fetches>>

\* lines 113 and 116: the failure message carries failureCount[api] as it is
\* read now, then continue
PubFailure(r) ==
  /\ pc[r] = "pubFailure"
  /\ \E err \in BusResults :
       /\ Publish(r, Msg("failure", api(r), failureCount[api(r)]), err)
       /\ Goto(r, AfterPublish(err, "loop"))
  /\ idx' = [idx EXCEPT ![r] = @ + 1]
  /\ Reads(r, api(r))
  /\ UNCHANGED <<monitor, recovered, inactiveAPIs, shared, now, city, tmp, resp, response,
                 outcome, wroteBy, calls, recorded, prior, fetches>>

\* line 122: failureCount[api] = 0
ResetCount(r) ==
  /\ pc[r] = "resetCount"
  /\ failureCount' = [failureCount EXCEPT ![api(r)] = 0]
  /\ recorded' = [recorded EXCEPT ![api(r)] = 0]
  /\ Writes(r, api(r))
  /\ Goto(r, "setClosed")
  /\ UNCHANGED <<monitor, recovered, inactiveAPIs, circuitState, lastFailureTime, now, city, idx, tmp,
                 resp, response, published, pubErr, outcome, readBy, calls, prior, fetches>>

\* line 123: circuitState[api] = "closed"
SetClosed(r) ==
  /\ pc[r] = "setClosed"
  /\ circuitState' = [circuitState EXCEPT ![api(r)] = "closed"]
  /\ Writes(r, api(r))
  /\ Goto(r, "pubClosed")
  /\ UNCHANGED <<monitor, recovered, inactiveAPIs, failureCount, lastFailureTime, now, city, idx, tmp,
                 resp, response, published, pubErr, outcome, readBy, calls, recorded, prior, fetches>>

\* line 124: the circuit-closed message
PubClosed(r) ==
  /\ pc[r] = "pubClosed"
  /\ \E err \in BusResults :
       /\ Publish(r, Msg("closed", api(r), 0), err)
       /\ Goto(r, AfterPublish(err, "pubSuccess"))
  /\ UNCHANGED <<monitor, recovered, inactiveAPIs, shared, now, city, idx, tmp, resp, response,
                 outcome, readBy, wroteBy, calls, recorded, prior, fetches>>

\* PubSuccess without the return of line 129: the loop goes on
PubSuccessNoReturn(r) ==
  /\ pc[r] = "pubSuccess"
  /\ \E err \in BusResults : Publish(r, Msg("success", api(r), 0), err)
  /\ Continue(r)
  /\ UNCHANGED <<monitor, recovered, inactiveAPIs, shared, now, city, tmp, resp, response,
                 outcome, readBy, wroteBy, calls, recorded, prior, fetches>>

\* line 128: the success message (the body was decoded at lines 126-127)
PubSuccess(r) ==
  /\ pc[r] = "pubSuccess"
  /\ \E err \in BusResults :
       /\ Publish(r, Msg("success", api(r), 0), err)
       /\ Goto(r, AfterPublish(err, "reply"))
  /\ UNCHANGED <<monitor, recovered, inactiveAPIs, shared, now, city, idx, tmp, resp, response,
                 outcome, readBy, wroteBy, calls, recorded, prior, fetches>>

\* lines 126-129 and 63: getWeatherData returns the decoded body, the
\* handler encodes it into the response and its goroutine ends
ReplyData(r) ==
  /\ pc[r] = "reply"
  /\ response' = [response EXCEPT ![r] = [status |-> 200, body |-> Encode(Decode(resp[r]))]]
  /\ Return(r)
  /\ UNCHANGED <<monitor, recovered, inactiveAPIs, shared, now, city, recorded, prior, fetches>>

\* ReplyStub answering the error with a 500 instead of the stub
ReplyStubHardFailure(r) ==
  /\ pc[r] = "stub"
  /\ response' = [response EXCEPT ![r] = [status |-> 500, body |-> "all APIs failed"]]
  /\ Goto(r, "pubFallback")
  /\ UNCHANGED <<monitor, recovered, inactiveAPIs, shared, now, city, idx, tmp, resp, published, pubErr, hist>>

\* lines 132 and 52-58: getWeatherData returns the error and the handler
\* writes the stub
ReplyStub(r) ==
  /\ pc[r] = "stub"
  /\ response' = [response EXCEPT ![r] = [status |-> 200, body |-> StubBody]]
  /\ Goto(r, "pubFallback")
  /\ UNCHANGED <<monitor, recovered, inactiveAPIs, shared, now, city, idx, tmp, resp, published, pubErr, hist>>

\* PubFallback without the publishStatus call of line 59
PubFallbackSilent(r) ==
  /\ pc[r] = "pubFallback"
  /\ Goto(r, "return")
  /\ UNCHANGED <<monitor, recovered, inactiveAPIs, shared, now, city, idx, tmp, resp, response, published,
                 pubErr, outcome, readBy, wroteBy, calls, recorded, prior, fetches>>

\* line 59: the fallback message
PubFallback(r) ==
  /\ pc[r] = "pubFallback"
  /\ \E err \in BusResults :
       /\ Publish(r, Msg("fallback", "none", 0), err)
       /\ Goto(r, AfterPublish(err, "return"))
  /\ UNCHANGED <<monitor, recovered, inactiveAPIs, shared, now, city, idx, tmp, resp, response,
                 outcome, readBy, wroteBy, calls, recorded, prior, fetches>>

\* line 60: the handler returns and its goroutine ends
ReturnStub(r) ==
  /\ pc[r] = "return"
  /\ Return(r)
  /\ UNCHANGED <<monitor, recovered, inactiveAPIs, shared, now, city, response, recorded, prior, fetches>>

\* the wall clock read by time.Now and time.Since advances
Tick ==
  /\ \A r \in Reqs : pc[r] # "crashed"
  /\ now + TickStep <= MaxTime
  /\ now' = now + TickStep
  /\ UNCHANGED <<monitor, recovered, inactiveAPIs, shared, city, locals, hist>>

\* The maps are plain Go maps.  A map assignment that overlaps another
\* goroutine's access to the same map (any key) may be caught by the runtime,
\* which then ends the process ("fatal error: concurrent map writes",
\* "concurrent map read and map write"): no handler goes on and the requests
\* in flight get no response.  failureCount[api]++ is one assignment whose
\* load and store go through the element it returns.
MapWritten(l) ==
  CASE l \in {"setHalfOpen", "setOpen", "setClosed"} -> "circuitState"
    [] l \in {"readCount", "resetCount"} -> "failureCount"
    [] l = "writeLast" -> "lastFailureTime"
    [] OTHER -> "none"

MapRead(l) ==
  CASE l = "readState" -> "circuitState"
    [] l \in {"checkThreshold", "pubFailure"} -> "failureCount"
    [] l = "checkCooldown" -> "lastFailureTime"
    [] OTHER -> "none"

Crash ==
  /\ \E r \in Reqs, q \in Reqs :
       /\ r # q
       /\ MapWritten(pc[r]) # "none"
       /\ MapWritten(pc[r]) \in {MapWritten(pc[q]), MapRead(pc[q])}
  /\ pc' = [r \in Reqs |-> "crashed"]
  /\ idx' = [r \in Reqs |-> 1]
  /\ tmp' = [r \in Reqs |-> 0]
  /\ resp' = [r \in Reqs |-> NoResp]
  /\ published' = [r \in Reqs |-> <<>>]
  /\ pubErr' = [r \in Reqs |-> "none"]
  /\ outcome' = [r \in Reqs |-> NoOutcome]
  /\ readBy' = [r \in Reqs |-> {}]
  /\ wroteBy' = [r \in Reqs |-> {}]
  /\ calls' = [r \in Reqs |-> <<>>]
  /\ UNCHANGED <<monitor, recovered, inactiveAPIs, shared, now, city, response, recorded, prior, fetches>>

\* the steps of a handler that has accepted its request
Handle(r) ==
  \/ LoopHead(r)
  \/ ReadState(r)
  \/ CheckCooldown(r)
  \/ SetHalfOpen(r)
  \/ IssueCall(r)
  \/ (pc[r] = "inflight" /\ \E reply \in Replies(api(r)) : Respond(r, reply))
  \/ ReadCount(r)
  \/ WriteCount(r)
  \/ WriteLast(r)
  \/ CheckThreshold(r)
  \/ SetOpen(r)
  \/ PubOpened(r)
  \/ PubFailure(r)
  \/ ResetCount(r)
  \/ SetClosed(r)
  \/ PubClosed(r)
  \/ PubSuccess(r)
  \/ ReplyData(r)
  \/ ReplyStub(r)
  \/ PubFallback(r)
  \/ ReturnStub(r)

Step(r) ==
  \/ \E c \in Cities : Receive(r, c)
  \/ Handle(r)

Next ==
  \/ Tick
  \/ Crash
  \/ \E r \in Reqs : (Step(r) /\ fetches' <= MaxFetches)

Spec == Init /\ [][Next]_vars

\* one request at a time: the next request arrives after the previous
\* response was written
NextSeq == Tick \/ (Step(1) /\ fetches' <= MaxSeqFetches)

SpecSeq == Init /\ [][NextSeq]_vars

\* ------------------------------------- requests that keep arriving
\* the enabled provider that comes first in apis
IsTop(a) == ~inactiveAPIs[a] /\ \A k \in 1..(Rank(a) - 1) : inactiveAPIs[apis[k]]

\* The clock goes on past MaxTime: the origin of time is moved instead of
\* now, every last-failure time moves back by the step, and one that lies a
\* cooldown or more back stays there (line 86 only asks whether less than
\* the cooldown has passed)
Rebase ==
  /\ \A r \in Reqs : pc[r] # "crashed"
  /\ now + TickStep > MaxTime
  /\ lastFailureTime' =
       [a \in Apis |->
          IF lastFailureTime[a] = ZeroTime THEN ZeroTime
          ELSE IF lastFailureTime[a] - TickStep < now - Cooldown THEN now - Cooldown
          ELSE lastFailureTime[a] - TickStep]
  /\ UNCHANGED <<inactiveAPIs, circuitState, failureCount, now, city, locals, hist,
                 monitor, recovered>>

\* the top-priority provider is repaired: its calls succeed from now on
Recover ==
  /\ ~recovered
  /\ recovered' = TRUE
  /\ UNCHANGED <<inactiveAPIs, shared, now, city, locals, hist, monitor>>

\* the next request arrives (not counted)
Arrive(r) ==
  /\ \E c \in Cities : Accept(r, c)
  /\ UNCHANGED fetches

\* a request for a city arrives
ArriveFetch(r) ==
  /\ \E c \in Cities \ {""} : Accept(r, c)
  /\ UNCHANGED fetches

\* a step of the handler in which a call fails only if the provider has
\* not been repaired and its failure count can still grow
Serve(r) ==
  /\ Handle(r)
  /\ (pc[r] = "inflight" /\ resp'[r] = "failed")
       => /\ failureCount[api(r)] < MaxCount
          /\ ~(recovered /\ IsTop(api(r)))

NextLive ==
  \/ Tick
  \/ Rebase
  \/ Recover
  \/ Arrive(1)
  \/ Serve(1)

\* requests served one after the other without end: time goes on, requests
\* for a city keep arriving, and the handler goroutine is scheduled (its
\* client.Get returns within the timeout, the bus answers its publishes)
SpecLive ==
  /\ Init
  /\ [][NextLive]_vars
  /\ WF_vars(Tick \/ Rebase)
  /\ WF_vars(ArriveFetch(1))
  /\ WF_vars(Serve(1))

\* ------------------------------------------------- heartbeat-service
\* what client.Get of checkHealth may return (heartbeat-service/main.go,
\* line 41): a transport error, the 5 s timeout, status 200 or another status
HealthReplies == {"err", "timeout", "200", "non200"}

\* mockSlackAlert as checkHealth calls it: none when the check is healthy
NoAlert == "none"

\* MockSlackAlert raising the alert for transport errors only
MockSlackAlertOnErrOnly(result) ==
  IF result \in {"err", "timeout"} THEN "API Proxy failed health check!" ELSE NoAlert

\* checkHealth, lines 42-58: err != nil alerts, a status other than 200
\* alerts, anything else is healthy
MockSlackAlert(result) ==
  IF result \in {"err", "timeout"} THEN "API Proxy failed health check!"
  ELSE IF result # "200" THEN "API Proxy returned non-200 from /health!"
  ELSE NoAlert

\* main, line 28, and checkHealth, lines 36-41: the GET to /health goes out
CheckHealthGet ==
  /\ hbPc = "poll"
  /\ hbPc' = "wait"
  /\ UNCHANGED <<hbResult, hbLog>>
  /\ UNCHANGED <<inactiveAPIs, shared, now, city, locals, hist, recovered>>

\* line 41: client.Get returns, at the latest when its timeout expires
CheckHealthReturn(result) ==
  /\ hbPc = "wait"
  /\ hbResult' = result
  /\ hbPc' = "classify"
  /\ UNCHANGED hbLog
  /\ UNCHANGED <<inactiveAPIs, shared, now, city, locals, hist, recovered>>

\* lines 42-59: the result is classified, an alert is raised or not, and
\* checkHealth returns to the loop
CheckHealthClassify ==
  /\ hbPc = "classify"
  /\ LET entry == [result |-> hbResult, alert |-> MockSlackAlert(hbResult)]
     IN hbLog' = IF Len(hbLog) < MaxLog THEN Append(hbLog, entry)
                 ELSE Append(Tail(hbLog), entry)
  /\ hbResult' = "none"
  /\ hbPc' = "sleep"
  /\ UNCHANGED <<inactiveAPIs, shared, now, city, locals, hist, recovered>>

\* main, lines 27-30: time.Sleep returns and the loop starts over
Sleep ==
  /\ hbPc = "sleep"
  /\ hbPc' = "poll"
  /\ UNCHANGED <<hbResult, hbLog>>
  /\ UNCHANGED <<inactiveAPIs, shared, now, city, locals, hist, recovered>>

NextHB ==
  \/ CheckHealthGet
  \/ \E result \in HealthReplies : CheckHealthReturn(result)
  \/ CheckHealthClassify
  \/ Sleep

\* the monitor's process on its own; its goroutine is always scheduled
\* again, client.Get returns within its timeout and time.Sleep returns
SpecHB == Init /\ [][NextHB]_vars /\ WF_vars(NextHB)

\* ---------------------------------------------------------------- claims
\* request r takes a step of its handler
Acts(r) == pc'[r] # pc[r] /\ pc'[r] # "crashed"
IsJsonObject(body) == body \in {"json:openweathermap", "json:wttr"}

\* C1: once threshold (3) consecutive failures of a provider were recorded
\* with no success in between, the fetch recording the third one opens the
\* circuit, and a check made within the cooldown skips the provider and
\* leaves the state open.
C1_OpenAfterThreshold ==
  [][\A r \in Reqs :
       /\ (pc[r] = "checkThreshold" /\ Acts(r) /\ recorded[api(r)] = Threshold)
            => pc'[r] = "setOpen"
       /\ (pc[r] = "setOpen" /\ Acts(r)) => circuitState'[api(r)] = "open"
       /\ (pc[r] = "checkCooldown" /\ Acts(r) /\ CooldownPending(api(r)))
            => (pc'[r] = "loop" /\ idx'[r] = idx[r] + 1
                /\ circuitState'[api(r)] = "open")]_vars

\* the requests admitted to call provider a whose outcome is not recorded yet
Trial(a) == {r \in Reqs : pc[r] \in {"call", "inflight"} /\ api(r) = a}

\* C2: a check made once the cooldown has elapsed on an open circuit sets it
\* half-open and admits the provider, and while that half-open trial is in
\* flight no second fetch is admitted to call the provider.
C2_HalfOpenOnce ==
  [][\A r \in Reqs :
       /\ (pc[r] = "checkCooldown" /\ Acts(r) /\ ~CooldownPending(api(r)))
            => pc'[r] = "setHalfOpen"
       /\ (pc[r] = "setHalfOpen" /\ Acts(r))
            => (circuitState'[api(r)] = "half-open" /\ pc'[r] = "call")
       /\ (pc'[r] = "call" /\ Acts(r) /\ circuitState'[api(r)] = "half-open")
            => Trial(api(r))' = {r}]_vars

\* C3: concurrent failing fetches lose no increment and count none twice:
\* the failure count of a provider equals the number of failures recorded
\* since its last reset, and a circuit that is open is not opened again.
C3_NoLostUpdate ==
  [][/\ \A a \in Apis : failureCount'[a] = recorded'[a]
     /\ \A r \in Reqs : (pc[r] = "setOpen" /\ Acts(r))
                           => circuitState[api(r)] # "open"]_vars

\* what first-success-wins says of request r once provider a answered 200:
\* a is the last provider called, every provider before a was disabled,
\* skipped or failed, and no provider after a was called, read or written
FirstSuccess(r) ==
  \A a \in Apis : outcome[r][a] = "ok" =>
    /\ pc[r] \in {"resetCount", "setClosed", "pubClosed", "pubSuccess", "reply"}
    /\ api(r) = a
    /\ calls[r] # <<>> /\ calls[r][Len(calls[r])] = a
    /\ \A k \in 1..(Rank(a) - 1) : outcome[r][apis[k]] \in {"disabled", "skipped", "failed"}
    /\ \A b \in Lower(a) : /\ outcome[r][b] = "none"
                           /\ b \notin readBy[r] \cup wroteBy[r]
                           /\ \A k \in 1..Len(calls[r]) : calls[r][k] # b

AllFailed(r) == \A a \in Apis : outcome[r][a] \in {"disabled", "skipped", "failed"}
StubResponse == [status |-> 200, body |-> StubBody]

\* C5: the fetch returns AllProvidersFailed exactly when every enabled
\* provider was skipped as ineligible or was called and failed in it, and
\* then, and only then, the response is status 200 with the fixed stub body.
C5_StubOnTotalFailure ==
  [][\A r \in Reqs :
       /\ (pc'[r] \in {"stub", "pubFallback", "return"}) => AllFailed(r)'
       /\ (pc'[r] \in {"resetCount", "setClosed", "pubClosed", "pubSuccess", "reply"})
            => ~AllFailed(r)'
       /\ (pc[r] = "loop" /\ Acts(r) /\ AllFailed(r)) => pc'[r] = "stub"
       /\ (pc[r] = "stub" /\ Acts(r)) => response'[r] = StubResponse
       /\ (pc'[r] \in {"pubFallback", "return"}) => response'[r] = StubResponse
       /\ (response'[r] # response[r] /\ response'[r].body = StubBody)
            => (pc[r] = "stub" /\ AllFailed(r))
       /\ (pc[r] = "reply" /\ Acts(r)) => response'[r].body # StubBody]_vars

\* the first provider was skipped within its cooldown, the second was called
\* and failed, and the stub went out
C5_Witness ==
  \E r \in Reqs : /\ pc[r] = "pubFallback"
                  /\ outcome[r]["openweathermap"] = "skipped"
                  /\ outcome[r]["wttr"] = "failed"
                  /\ response[r] = StubResponse

\* request q is between the first and the last access of lines 106-110 or
\* of lines 122-123 for provider a
Recording(q, a) ==
  /\ pc[q] \in {"readCount", "writeCount", "writeLast", "checkThreshold", "setOpen",
                "resetCount", "setClosed"}
  /\ api(q) = a

\* C6: the failure count is reset to zero exactly when the state becomes
\* closed: a recorded success leaves the state closed and the count at 0
\* (plus the failures recorded after its reset, if any) whatever the state
\* was, and no other step lowers the count.
C6_ResetOnlyOnClose ==
  [][/\ \A r \in Reqs : (pc[r] = "setClosed" /\ Acts(r))
                          => /\ circuitState'[api(r)] = "closed"
                             /\ failureCount'[api(r)] = recorded'[api(r)]
     /\ \A a \in Apis : (failureCount'[a] < failureCount[a])
                          => \E r \in Reqs : pc[r] = "resetCount" /\ Acts(r) /\ api(r) = a]_vars

\* C7: a failure recorded while the state is half-open re-opens the circuit,
\* whatever the failure count is (stated for a failure that no other request
\* is recording an outcome next to).
C7_HalfOpenFailureReopens ==
  [][\A r \in Reqs :
       (/\ pc[r] = "checkThreshold" /\ Acts(r)
        /\ circuitState[api(r)] = "half-open"
        /\ \A q \in Reqs \ {r} : ~Recording(q, api(r)))
         => pc'[r] = "setOpen"]_vars

\* C8 as claimed: at the moment a call is issued the state of the provider is
\* closed or half-open, never open.
C8_NeverCallOpen ==
  [][\A r \in Reqs :
       (pc[r] = "call" /\ Acts(r)) => circuitState[api(r)] \in {"closed", "half-open"}]_vars

\* C8 as amended: a call is issued only by a fetch whose own check of this
\* provider read the state closed or half-open, or read it open, found the
\* cooldown elapsed and set it half-open; the state it read may have been
\* changed by another request before the call goes out.
C8_CallOnlyAfterCheck ==
  [][\A r \in Reqs :
       /\ (pc'[r] = "inflight" /\ Acts(r)) => pc[r] = "call"
       /\ (pc'[r] = "call" /\ Acts(r))
            => \/ pc[r] = "readState" /\ circuitState[api(r)] \in {"closed", "half-open"}
               \/ pc[r] = "setHalfOpen" /\ circuitState'[api(r)] = "half-open"
       /\ (pc'[r] = "setHalfOpen" /\ Acts(r))
            => /\ pc[r] = "checkCooldown"
               /\ \/ lastFailureTime[api(r)] = ZeroTime
                  \/ now - lastFailureTime[api(r)] >= Cooldown
       /\ (pc'[r] = "checkCooldown" /\ Acts(r))
            => (pc[r] = "readState" /\ circuitState[api(r)] = "open")]_vars

\* a request passed the check and its call is out while another request has
\* opened the circuit
C8_Witness ==
  \E r \in Reqs : /\ pc[r] = "inflight"
                  /\ circuitState[api(r)] = "open"
                  /\ \E q \in Reqs \ {r} : api(r) \in wroteBy[q]

C10_DisabledUntouched ==
  /\ \A a \in Apis : inactiveAPIs[a] =>
       /\ circuitState[a] = "closed"
       /\ failureCount[a] = 0
       /\ lastFailureTime[a] = ZeroTime
       /\ \A r \in Reqs : /\ a \notin readBy[r] \cup wroteBy[r]
                          /\ \A k \in 1..Len(calls[r]) : calls[r][k] # a
                          /\ outcome[r][a] \in {"none", "disabled"}
  /\ (\A a \in Apis : inactiveAPIs[a]) =>
       \A r \in Reqs : /\ calls[r] = <<>>
                       /\ pc[r] \in {"idle", "loop", "stub", "pubFallback", "return", "done"}
                       /\ response[r].status \in {0, 400} \/ response[r] = StubResponse

\* both providers are disabled and a fetch has answered with the stub
C10_Witness ==
  /\ \A a \in Apis : inactiveAPIs[a]
  /\ \E r \in Reqs : /\ pc[r] = "pubFallback"
                     /\ response[r] = StubResponse
                     /\ calls[r] = <<>>

\* the locations at which a handler is in a publishStatus call; the call
\* returns when the action of that location is taken, which may take any
\* time: Publish goes to the bus over the network
PubLocs == {"pubOpened", "pubFailure", "pubClosed", "pubSuccess", "pubFallback"}

\* C11: the response to the caller never waits for a publish: a handler that
\* is in a publishStatus call has written its response already, so that a
\* publish that never completes holds no response back.
C11_PublishNeverBlocks ==
  \A r \in Reqs : pc[r] \in PubLocs => response[r].status # 0

\* where the handler goes on after the publishStatus call made at location l
PubNext(l) ==
  CASE l \in {"pubOpened", "pubFailure"} -> "loop"
    [] l = "pubClosed" -> "pubSuccess"
    [] l = "pubSuccess" -> "reply"
    [] l = "pubFallback" -> "return"

\* C12: whatever error the bus returns for a publish, the handler goes on at
\* the same place with the same provider order, and the step changes no
\* circuit state, failure count or last-failure time, no recorded outcome
\* and no response; the response of a successful fetch is the decoded body
\* whether its publishes failed or not.
C12_PublishErrorSwallowed ==
  [][\A r \in Reqs :
       /\ (pc[r] \in PubLocs /\ Acts(r))
            => /\ pubErr'[r] \in BusResults
               /\ pc'[r] = PubNext(pc[r])
               /\ idx'[r] = IF pc'[r] = "loop" THEN idx[r] + 1 ELSE idx[r]
               /\ shared' = shared
               /\ response' = response
               /\ resp' = resp
               /\ outcome' = outcome
               /\ calls' = calls
       /\ (pc[r] = "reply" /\ Acts(r))
            => response'[r] = [status |-> 200, body |-> Encode(Decode(resp[r]))]
       /\ (pc[r] = "return" /\ Acts(r)) => response'[r] = StubResponse]_vars

\* the publish of the success message returned an error and the handler is
\* about to answer with the payload of the provider
C12_Witness ==
  \E r \in Reqs : /\ pc[r] = "reply"
                  /\ pubErr[r] = "error"
                  /\ outcome[r]["openweathermap"] = "ok"
                  /\ IsJsonObject(resp[r])

FallbackMsg == Msg("fallback", "none", 0)
\* how often the fallback message is among the messages of request r
FallbackCount(r) ==
  Cardinality({k \in 1..Len(published[r]) : published[r][k] = FallbackMsg})

\* C13: a handler has published the fallback message exactly once when it
\* returns from a fetch that ended in AllProvidersFailed, and it is
\* published by no other request: not before the fetch has ended that way,
\* never by a fetch that succeeded, never for a missing key.
C13_FallbackEventOnce ==
  [][\A r \in Reqs :
       /\ FallbackCount(r)' = IF pc'[r] = "return" THEN 1 ELSE 0
       /\ (pc'[r] \in {"pubFallback", "return"})
            => (AllFailed(r)' /\ response'[r] = StubResponse /\ city'[r] # "")
       /\ (pc'[r] = "done" /\ Acts(r) /\ AllFailed(r))
            => (pc[r] = "return" /\ FallbackCount(r) = 1)
       /\ (pc'[r] = "done" /\ Acts(r) /\ ~AllFailed(r))
            => (pc[r] \in {"idle", "reply"} /\ FallbackCount(r) = 0)
       /\ (pc'[r] = "return") => pc[r] \in {"pubFallback", "return"}]_vars

\* every provider failed in the fetch of a request, whose handler has
\* published the fallback message and is about to return
C13_Witness ==
  \E r \in Reqs : /\ pc[r] = "return"
                  /\ published[r][Len(published[r])] = FallbackMsg
                  /\ \A a \in Apis : outcome[r][a] = "failed"

\* C14: a request with an empty city is answered 400 at once: the step that
\* accepts it leaves every circuit state, failure count and last-failure
\* time as it was, and the request calls no provider, reads and writes no
\* circuit and publishes nothing.
C14_MissingKeyNoCircuitEvent ==
  [][\A r \in Reqs :
       /\ (fetches' # fetches /\ city'[r] = "") => shared' = shared
       /\ (city'[r] = "")
            => /\ pc'[r] \in {"done", "crashed"}
               /\ response'[r] = [status |-> 400, body |-> MissingCity]
               /\ calls'[r] = <<>>
               /\ published'[r] = <<>>
               /\ outcome'[r] = NoOutcome
               /\ readBy'[r] = {} /\ wroteBy'[r] = {}]_vars

\* a request with an empty city was answered 400 while a provider has
\* failures on record
C14_Witness ==
  \E r \in Reqs : /\ city[r] = ""
                  /\ pc[r] = "done"
                  /\ response[r] = [status |-> 400, body |-> MissingCity]
                  /\ failureCount["openweathermap"] = 2
                  /\ recorded["openweathermap"] > prior["openweathermap"]

LastPoll == hbLog[Len(hbLog)]

\* C15: the poll loop never ends: every iteration, healthy or alerting, goes
\* on to the sleep and from there to the next GET, and an iteration raises
\* an alert exactly when its result is not a 200 response.
C15_PollLoopNeverStops ==
  /\ [][/\ (hbPc = "classify" /\ hbPc' # hbPc)
             => /\ hbPc' = "sleep"
                /\ LastPoll'.result = hbResult
                /\ (LastPoll'.alert # NoAlert) <=> (hbResult # "200")
        /\ (hbPc = "sleep" /\ hbPc' # hbPc) => hbPc' = "poll"
        /\ hbPc' \in {"poll", "wait", "classify", "sleep"}]_vars
  /\ \A result \in HealthReplies :
       (hbPc = "classify" /\ hbResult = result) ~> (hbPc = "wait")

\* an iteration that got a non-200 status raised its alert, the one after
\* it timed out and raised its alert, and the loop is polling again
C15_Witness ==
  /\ hbPc = "wait"
  /\ Len(hbLog) >= 2
  /\ hbLog[Len(hbLog) - 1].result = "non200"
  /\ hbLog[Len(hbLog) - 1].alert # NoAlert
  /\ LastPoll.result = "timeout"
  /\ LastPoll.alert # NoAlert

\* the failure and circuit-opened messages among those of request r
FailureEvents(r) ==
  {k \in 1..Len(published[r]) : published[r][k][1] \in {"failure", "opened"}}
FailedProviders(r) == {a \in Apis : outcome[r][a] = "failed"}

\* C16: every failure a fetch records publishes exactly one message before
\* the loop goes on: the failure message with the new count, which an
\* increment has produced and which is below the threshold, or else the
\* circuit-opened message; and the circuit-opened message is published only
\* for a failure that moved the state to open from closed or half-open.
C16_OneEventPerFailure ==
  [][\A r \in Reqs :
       /\ (pc[r] = "pubFailure" /\ Acts(r))
            => \E n \in 1..(Threshold - 1) :
                 published'[r] = Append(published[r], Msg("failure", api(r), n))
       /\ (pc[r] = "pubOpened" /\ Acts(r))
            => published'[r] = Append(published[r], Msg("opened", api(r), Threshold))
       /\ (pc[r] = "setOpen" /\ Acts(r))
            => (circuitState[api(r)] # "open" /\ pc'[r] = "pubOpened")
       /\ (pc'[r] \in {"loop", "stub"})
            => Cardinality(FailureEvents(r)') = Cardinality(FailedProviders(r)')]_vars

C18_StateCountAgree ==
  \A a \in Apis :
    (\A q \in Reqs : ~Recording(q, a) /\ pc[q] # "crashed")
      => /\ circuitState[a] = "closed" => failureCount[a] < Threshold
         /\ circuitState[a] \in {"open", "half-open"} => failureCount[a] >= Threshold

\* the changes of state the claim allows
AllowedTransitions ==
  {<<"closed", "open">>, <<"open", "half-open">>,
   <<"half-open", "closed">>, <<"half-open", "open">>}

\* C19: the state of a provider changes only from closed to open, from open
\* to half-open, and from half-open to closed or to open.
C19_OnlyAllowedTransitions ==
  [][\A a \in Apis :
       circuitState'[a] # circuitState[a]
         => <<circuitState[a], circuitState'[a]>> \in AllowedTransitions]_vars

\* C20: when the top-priority enabled provider has been repaired and its
\* circuit is open, the circuit becomes closed with failure count 0; a fetch
\* that skips the provider within the cooldown leaves its last-failure time
\* as it is, and a fetch that finds the cooldown elapsed calls the provider.
C20_OpenCircuitRecovers ==
  /\ [][\A r \in Reqs :
          /\ (pc[r] = "checkCooldown" /\ Acts(r) /\ CooldownPending(api(r)))
               => lastFailureTime' = lastFailureTime
          /\ (pc[r] = "checkCooldown" /\ Acts(r) /\ ~CooldownPending(api(r)))
               => pc'[r] = "setHalfOpen"
          /\ (pc[r] = "setHalfOpen" /\ Acts(r)) => pc'[r] = "call"]_vars
  /\ \A a \in Apis :
       (recovered /\ IsTop(a) /\ circuitState[a] = "open")
         ~> (circuitState[a] = "closed" /\ failureCount[a] = 0)

\* openweathermap was open when it was repaired; a fetch that came after the
\* cooldown called it and has closed its circuit
C20_Witness ==
  /\ recovered
  /\ prior["openweathermap"] = Threshold
  /\ pc[1] = "pubClosed" /\ api(1) = "openweathermap"
  /\ "openweathermap" \in wroteBy[1]
  /\ circuitState["openweathermap"] = "closed"
  /\ failureCount["openweathermap"] = 0

====
